---- MODULE Spec2Model ----
(***************************************************************************)
(* CSV-to-SQL converter: the type inferrer (DataTypeInferrer) and the      *)
(* column-name sanitizer (CSVConverter._clean_column_name) of              *)
(* csv_converter_pro.py.                                                   *)
(*                                                                         *)
(* A text value is a sequence of one-character strings; a blank field of   *)
(* the file (NaN in the pandas Series) is the value Null.  A column is a   *)
(* sequence of such values; a Series holds each value as the text that     *)
(* astype(str) gives for it.                                               *)
(***************************************************************************)
EXTENDS Integers, Sequences, FiniteSets, TLC

VARIABLES csv_column, series, max_varchar_length, sql_type, infer_pc,
          col_name, clean_name, reclean_name, clean_pc,
          file, server, current_db, menu_pc, stmts, server_before, last, ops,
          command, cli_pc, engine, events, df_columns, answer, cli_outcome,
          exit_code, sources, config, chunk_size, config_pc

vars == <<csv_column, series, max_varchar_length, sql_type, infer_pc,
          col_name, clean_name, reclean_name, clean_pc,
          file, server, current_db, menu_pc, stmts, server_before, last, ops,
          command, cli_pc, engine, events, df_columns, answer, cli_outcome,
          exit_code, sources, config, chunk_size, config_pc>>

inferVars == <<csv_column, series, max_varchar_length, sql_type, infer_pc>>
cleanVars == <<col_name, clean_name, reclean_name, clean_pc>>
menuVars == <<file, server, current_db, menu_pc, stmts, server_before, last, ops>>
cliVars == <<command, cli_pc, engine, events, df_columns, answer, cli_outcome,
            exit_code>>
configVars == <<sources, config, chunk_size, config_pc>>

\* the parts of the program a specification does not run
InferIdle ==
    /\ csv_column = <<>>
    /\ series = <<>>
    /\ max_varchar_length = 255
    /\ sql_type = [name |-> "pending", n |-> 0]
    /\ infer_pc = "idle"

CleanIdle ==
    /\ col_name = <<>>
    /\ clean_name = <<>>
    /\ reclean_name = <<>>
    /\ clean_pc = "idle"

MenuIdle ==
    /\ file = <<>>
    /\ server = <<>>
    /\ current_db = "None"
    /\ menu_pc = "idle"
    /\ stmts = <<>>
    /\ server_before = <<>>
    /\ last = <<>>
    /\ ops = 0

CliIdle ==
    /\ command = <<>>
    /\ cli_pc = "idle"
    /\ engine = "None"
    /\ events = <<>>
    /\ df_columns = <<>>
    /\ answer = "none"
    /\ cli_outcome = "idle"
    /\ exit_code = -1

ConfigIdle ==
    /\ sources = <<>>
    /\ config = <<>>
    /\ chunk_size = <<>>
    /\ config_pc = "idle"

(***************************************************************************)
(* Bounds of the model.                                                    *)
(***************************************************************************)
\* longest column drawn freely from the value pool
MaxLen == 2
\* longest header text drawn freely from the header alphabet
MaxNameLen == 4
\* most data rows of a file
MaxRows == 2
\* most menu choices of one run of the menu-driven program
MaxOps == 3

(***************************************************************************)
(* Characters.                                                             *)
(***************************************************************************)
\* the missing value: no text value equals it (every element of a text value is
\* one character)
Null == <<"<NA>">>

DigitSeq == <<"0", "1", "2", "3", "4", "5", "6", "7", "8", "9">>
Digits == {DigitSeq[i] : i \in 1..10}
DigitVal(c) == (CHOOSE i \in 1..10 : DigitSeq[i] = c) - 1

UpperSeq == <<"A", "B", "C", "D", "E", "F", "G", "H", "I", "J", "K", "L", "M",
              "N", "O", "P", "Q", "R", "S", "T", "U", "V", "W", "X", "Y", "Z">>
LowerSeq == <<"a", "b", "c", "d", "e", "f", "g", "h", "i", "j", "k", "l", "m",
              "n", "o", "p", "q", "r", "s", "t", "u", "v", "w", "x", "y", "z">>
UpperLetters == {UpperSeq[i] : i \in 1..26}
LowerLetters == {LowerSeq[i] : i \in 1..26}

\* str.lower() on one character
LowerChar(c) ==
    IF c \in UpperLetters
    THEN LowerSeq[CHOOSE i \in 1..26 : UpperSeq[i] = c]
    ELSE c

\* Series.str.lower() on one value
Lower(s) == [i \in 1..Len(s) |-> LowerChar(s[i])]

\* Series.dropna()
RECURSIVE dropna(_)
dropna(s) ==
    IF s = <<>> THEN <<>>
    ELSE IF Head(s) = Null THEN dropna(Tail(s))
    ELSE <<Head(s)>> \o dropna(Tail(s))

\* Series.head(n)
head(s, n) == IF Len(s) <= n THEN s ELSE SubSeq(s, 1, n)

Range(s) == {s[i] : i \in 1..Len(s)}

(***************************************************************************)
(* pd.to_numeric(series, errors='coerce') on one text value: an optional   *)
(* sign, digits with at most one decimal point and at least one digit;     *)
(* anything else is coerced to NaN.  A parsed number keeps its sign, the   *)
(* digits of its integer part without leading zeros (so that magnitudes    *)
(* beyond 32 bits are compared exactly) and whether its fractional part is *)
(* non-zero.                                                               *)
(***************************************************************************)
NaN == [nan |-> TRUE]

RECURSIVE StripZeros(_)
StripZeros(ds) ==
    IF ds # <<>> /\ Head(ds) = "0" THEN StripZeros(Tail(ds)) ELSE ds

AllDigits(s) == \A i \in 1..Len(s) : s[i] \in Digits

to_numeric(v) ==
    IF v = Null \/ v = <<>> THEN NaN
    ELSE
    LET signed == v[1] \in {"-", "+"}
        body   == IF signed THEN Tail(v) ELSE v
        dots   == {i \in 1..Len(body) : body[i] = "."}
        ipart  == IF dots = {} THEN body
                  ELSE SubSeq(body, 1, (CHOOSE i \in dots : TRUE) - 1)
        fpart  == IF dots = {} THEN <<>>
                  ELSE SubSeq(body, (CHOOSE i \in dots : TRUE) + 1, Len(body))
    IN  IF /\ Cardinality(dots) <= 1
           /\ AllDigits(ipart) /\ AllDigits(fpart)
           /\ Len(ipart) + Len(fpart) >= 1
        THEN [nan  |-> FALSE,
              neg  |-> (v[1] = "-") /\ (StripZeros(ipart) # <<>> \/ StripZeros(fpart) # <<>>),
              digs |-> StripZeros(ipart),
              frac |-> \E i \in 1..Len(fpart) : fpart[i] # "0"]
        ELSE NaN

\* float(x).is_integer()
is_integer_value(x) == ~x.frac

\* magnitude comparison of two digit sequences without leading zeros
RECURSIVE LexLeq(_, _)
LexLeq(a, b) ==
    IF a = <<>> THEN TRUE
    ELSE IF DigitVal(Head(a)) # DigitVal(Head(b))
         THEN DigitVal(Head(a)) < DigitVal(Head(b))
         ELSE LexLeq(Tail(a), Tail(b))

MagLeq(a, b) ==
    IF Len(a) # Len(b) THEN Len(a) < Len(b) ELSE LexLeq(a, b)

\* x <= y on parsed integral numbers
NumLeq(x, y) ==
    IF x.neg /\ ~y.neg THEN TRUE
    ELSE IF ~x.neg /\ y.neg THEN FALSE
    ELSE IF x.neg THEN MagLeq(y.digs, x.digs)
    ELSE MagLeq(x.digs, y.digs)

\* Series.max() / Series.min(), which skip NaN
series_max(nums) ==
    CHOOSE x \in {n \in Range(nums) : ~n.nan} :
        \A y \in {n \in Range(nums) : ~n.nan} : NumLeq(y, x)
series_min(nums) ==
    CHOOSE x \in {n \in Range(nums) : ~n.nan} :
        \A y \in {n \in Range(nums) : ~n.nan} : NumLeq(x, y)

\* an integer literal of the source as a parsed number
Lit(neg, ds) == [nan |-> FALSE, neg |-> neg, digs |-> ds, frac |-> FALSE]

(***************************************************************************)
(* Regular expressions of the source, as sequences of tokens: "\\d" is one  *)
(* digit, "\\s+" one or more blanks, any other token the character itself.  *)
(* ReMatch is re.match: the pattern must match a prefix of the text.       *)
(***************************************************************************)
Blanks == {" ", "\t"}

RECURSIVE ReMatch(_, _)
ReMatch(pat, s) ==
    IF pat = <<>> THEN TRUE
    ELSE IF s = <<>> THEN FALSE
    ELSE IF Head(pat) = "\\d" THEN Head(s) \in Digits /\ ReMatch(Tail(pat), Tail(s))
    ELSE IF Head(pat) = "\\s+"
         THEN Head(s) \in Blanks
              /\ (ReMatch(pat, Tail(s)) \/ ReMatch(Tail(pat), Tail(s)))
    ELSE Head(s) = Head(pat) /\ ReMatch(Tail(pat), Tail(s))

D4 == <<"\\d", "\\d", "\\d", "\\d">>
D2 == <<"\\d", "\\d">>
TimePat == <<"\\s+">> \o D2 \o <<":">> \o D2 \o <<":">> \o D2

\* DataTypeInferrer.__init__: self.date_patterns
date_patterns ==
    << D4 \o <<"-">> \o D2 \o <<"-">> \o D2,
       D2 \o <<"/">> \o D2 \o <<"/">> \o D4,
       D2 \o <<"-">> \o D2 \o <<"-">> \o D4,
       D4 \o <<"/">> \o D2 \o <<"/">> \o D2 >>

\* _is_datetime: datetime_patterns
datetime_patterns ==
    << D4 \o <<"-">> \o D2 \o <<"-">> \o D2 \o TimePat,
       D2 \o <<"/">> \o D2 \o <<"/">> \o D4 \o TimePat >>

(***************************************************************************)
(* pd.to_datetime(series, errors='coerce') on one text value: the value    *)
(* parses when it is a date in one of the four layouts, with a month in    *)
(* 1..12 and a day in 1..31 (either order for the layouts that begin with  *)
(* a two-digit field), optionally followed by blanks and HH:MM:SS;         *)
(* anything else is coerced to NaT.  Only isna() of the result is used.    *)
(***************************************************************************)
Num2(s, i) == DigitVal(s[i]) * 10 + DigitVal(s[i + 1])

ValidMD(m, d) == m \in 1..12 /\ d \in 1..31

ValidDate(s) ==
    \/ /\ ReMatch(date_patterns[1], s) \/ ReMatch(date_patterns[4], s)
       /\ ValidMD(Num2(s, 6), Num2(s, 9))
    \/ /\ ReMatch(date_patterns[2], s) \/ ReMatch(date_patterns[3], s)
       /\ ValidMD(Num2(s, 1), Num2(s, 4)) \/ ValidMD(Num2(s, 4), Num2(s, 1))

ValidTime(t) ==
    /\ ReMatch(TimePat, t)
    /\ LET n == Len(t)
       IN  /\ \A i \in 1..(n - 8) : t[i] \in Blanks
           /\ ReMatch(D2 \o <<":">> \o D2 \o <<":">> \o D2, SubSeq(t, n - 7, n))
           /\ Num2(t, n - 7) <= 23 /\ Num2(t, n - 4) <= 59 /\ Num2(t, n - 1) <= 59

\* pd.to_datetime(...).isna() on one value
to_datetime_isna(v) ==
    IF v = Null \/ Len(v) < 10 THEN TRUE
    ELSE ~ /\ ValidDate(SubSeq(v, 1, 10))
           /\ Len(v) = 10 \/ ValidTime(SubSeq(v, 11, Len(v)))

(***************************************************************************)
(* pd.read_csv on one column of field texts, as analyze_csv calls it: the  *)
(* Series that infer_sql_type receives.  A column whose fields are all     *)
(* true/false words is held as booleans; a column whose fields all parse   *)
(* as numbers is int64 when every field is an integer text and none is     *)
(* blank, float64 otherwise; any other column keeps its texts.             *)
(***************************************************************************)
true_values == { <<"T", "r", "u", "e">>, <<"T", "R", "U", "E">>, <<"t", "r", "u", "e">> }
false_values == { <<"F", "a", "l", "s", "e">>, <<"F", "A", "L", "S", "E">>,
                  <<"f", "a", "l", "s", "e">> }

\* str() of a bool of the column
bool_repr(v) ==
    IF v \in true_values THEN <<"T", "r", "u", "e">> ELSE <<"F", "a", "l", "s", "e">>

\* str() of a float64 of the column, for a field text in shortest decimal form
float_repr(v) == IF "." \in Range(v) THEN v ELSE v \o <<".", "0">>

read_csv_column(col) ==
    LET fields == Range(dropna(col))
    IN  IF fields = {} THEN col
        ELSE IF fields \subseteq (true_values \cup false_values)
        THEN [i \in 1..Len(col) |-> IF col[i] = Null THEN Null ELSE bool_repr(col[i])]
        ELSE IF \A v \in fields : ~to_numeric(v).nan
        THEN IF Null \notin Range(col) /\ \A v \in fields : "." \notin Range(v)
             THEN col
             ELSE [i \in 1..Len(col) |-> IF col[i] = Null THEN Null ELSE float_repr(col[i])]
        ELSE col

(***************************************************************************)
(* DataTypeInferrer                                                        *)
(***************************************************************************)
\* rows of the column that _is_date and _is_datetime parse: series.head(10)
HeadRows == 10

SqlType(name) == [name |-> name, n |-> 0]
Varchar(n) == [name |-> "VARCHAR", n |-> n]

TEXT == SqlType("TEXT")
BOOLEAN_T == SqlType("BOOLEAN")
TINYINT == SqlType("TINYINT")
SMALLINT == SqlType("SMALLINT")
INT_T == SqlType("INT")
BIGINT == SqlType("BIGINT")
DECIMAL_10_2 == SqlType("DECIMAL(10,2)")
DATE_T == SqlType("DATE")
DATETIME_T == SqlType("DATETIME")
Pending == SqlType("pending")

IntegerTypes == {TINYINT, SMALLINT, INT_T, BIGINT}
NumericTypes == IntegerTypes \cup {DECIMAL_10_2}

\* _is_boolean: boolean_vals
boolean_vals ==
    { <<"t", "r", "u", "e">>, <<"f", "a", "l", "s", "e">>, <<"1">>, <<"0">>,
      <<"y", "e", "s">>, <<"n", "o">>, <<"y">>, <<"n">> }

\* variant: the values compared without str.lower()
is_boolean_case_sensitive(s) == Range(s) \subseteq boolean_vals

\* _is_boolean
is_boolean(s) == {Lower(s[i]) : i \in 1..Len(s)} \subseteq boolean_vals

\* pd.to_numeric(series, errors='coerce') followed by dropna(): the parsed
\* numbers of the values that parse
numeric_dropna(s) ==
    LET nums == [i \in 1..Len(s) |-> to_numeric(s[i])]
    IN  {nums[i] : i \in {j \in 1..Len(s) : ~nums[j].nan}}

\* _is_integer
is_integer(s) ==
    IF numeric_dropna(s) = {} THEN FALSE
    ELSE \A x \in numeric_dropna(s) : is_integer_value(x)

\* variant: every parsed value must be non-integral
is_float_all_fractional(s) ==
    IF numeric_dropna(s) = {} THEN FALSE
    ELSE \A x \in numeric_dropna(s) : ~is_integer_value(x)

\* _is_float
is_float(s) ==
    IF numeric_dropna(s) = {} THEN FALSE
    ELSE ~(\A x \in numeric_dropna(s) : is_integer_value(x))

\* _is_date
is_date(s) ==
    IF \E k \in 1..Len(date_patterns) : ReMatch(date_patterns[k], s[1])
    THEN ~(\A i \in 1..Len(head(s, HeadRows)) : to_datetime_isna(s[i]))
    ELSE FALSE

\* _is_datetime
is_datetime(s) ==
    IF \E k \in 1..Len(datetime_patterns) : ReMatch(datetime_patterns[k], s[1])
    THEN ~(\A i \in 1..Len(head(s, HeadRows)) : to_datetime_isna(s[i]))
    ELSE FALSE

\* variant: the upper limits compared with < instead of <=
integer_type_strict_upper(s) ==
    LET nums    == [i \in 1..Len(s) |-> to_numeric(s[i])]
        max_val == series_max(nums)
        min_val == series_min(nums)
    IN  IF NumLeq(Lit(TRUE, <<"1", "2", "8">>), min_val)
           /\ ~NumLeq(Lit(FALSE, <<"1", "2", "7">>), max_val)
        THEN TINYINT
        ELSE IF NumLeq(Lit(TRUE, <<"3", "2", "7", "6", "8">>), min_val)
                /\ ~NumLeq(Lit(FALSE, <<"3", "2", "7", "6", "7">>), max_val)
        THEN SMALLINT
        ELSE IF NumLeq(Lit(TRUE, <<"2", "1", "4", "7", "4", "8", "3", "6", "4", "8">>), min_val)
                /\ ~NumLeq(Lit(FALSE, <<"2", "1", "4", "7", "4", "8", "3", "6", "4", "7">>), max_val)
        THEN INT_T
        ELSE BIGINT

\* infer_sql_type, the integer branch: the narrowest type for min_val..max_val
integer_type(s) ==
    LET nums    == [i \in 1..Len(s) |-> to_numeric(s[i])]
        max_val == series_max(nums)
        min_val == series_min(nums)
    IN  IF NumLeq(Lit(TRUE, <<"1", "2", "8">>), min_val)
           /\ NumLeq(max_val, Lit(FALSE, <<"1", "2", "7">>))
        THEN TINYINT
        ELSE IF NumLeq(Lit(TRUE, <<"3", "2", "7", "6", "8">>), min_val)
                /\ NumLeq(max_val, Lit(FALSE, <<"3", "2", "7", "6", "7">>))
        THEN SMALLINT
        ELSE IF NumLeq(Lit(TRUE, <<"2", "1", "4", "7", "4", "8", "3", "6", "4", "8">>), min_val)
                /\ NumLeq(max_val, Lit(FALSE, <<"2", "1", "4", "7", "4", "8", "3", "6", "4", "7">>))
        THEN INT_T
        ELSE BIGINT

\* non_null_series.astype(str).str.len().max()
max_length(s) == CHOOSE l \in {Len(s[i]) : i \in 1..Len(s)} :
                     \A i \in 1..Len(s) : Len(s[i]) <= l

\* variant: round(max_length * 1.2) instead of int(max_length * 1.2)
varchar_type_rounding(s, M) ==
    IF max_length(s) > M THEN TEXT
    ELSE LET r == (max_length(s) * 12 + 5) \div 10
         IN  Varchar(IF r < M THEN r ELSE M)

\* infer_sql_type, the default branch: int(max_length * 1.2) truncates
varchar_type(s, M) ==
    IF max_length(s) > M THEN TEXT
    ELSE LET r == (max_length(s) * 12) \div 10
         IN  Varchar(IF r < M THEN r ELSE M)

\* the fixed DECIMAL type of the floating point branch
decimal_type(s) == DECIMAL_10_2

\* variant: the integer check placed before the boolean check
infer_sql_type_integer_first(ser, M) ==
    LET s == dropna(ser)
    IN  IF Len(s) = 0 THEN TEXT
        ELSE IF is_integer(s) THEN integer_type(s)
        ELSE IF is_boolean(s) THEN BOOLEAN_T
        ELSE IF is_float(s) THEN decimal_type(s)
        ELSE IF is_date(s) THEN DATE_T
        ELSE IF is_datetime(s) THEN DATETIME_T
        ELSE varchar_type(s, M)

\* infer_sql_type; pd.to_numeric(errors='coerce') and str.len() raise on no
\* column of texts, so the except branches are not taken
infer_sql_type(ser, M) ==
    LET s == dropna(ser)
    IN  IF Len(s) = 0 THEN TEXT
        ELSE IF is_boolean(s) THEN BOOLEAN_T
        ELSE IF is_integer(s) THEN integer_type(s)
        ELSE IF is_float(s) THEN decimal_type(s)
        ELSE IF is_date(s) THEN DATE_T
        ELSE IF is_datetime(s) THEN DATETIME_T
        ELSE varchar_type(s, M)

(***************************************************************************)
(* The columns of the file: field texts (and the blank field) chosen at the *)
(* boundaries of every rule.                                               *)
(***************************************************************************)
v_true == <<"t", "r", "u", "e">>
v_No == <<"N", "o">>
v_1 == <<"1">>
v_0 == <<"0">>
v_Y == <<"Y">>
v_2 == <<"2">>
v_2_0 == <<"2", ".", "0">>
v_m128 == <<"-", "1", "2", "8">>
v_m129 == <<"-", "1", "2", "9">>
v_127 == <<"1", "2", "7">>
v_128 == <<"1", "2", "8">>
v_200 == <<"2", "0", "0">>
v_32767 == <<"3", "2", "7", "6", "7">>
v_32768 == <<"3", "2", "7", "6", "8">>
v_m32768 == <<"-", "3", "2", "7", "6", "8">>
v_m32769 == <<"-", "3", "2", "7", "6", "9">>
v_40000 == <<"4", "0", "0", "0", "0">>
v_2147483647 == <<"2", "1", "4", "7", "4", "8", "3", "6", "4", "7">>
v_2147483648 == <<"2", "1", "4", "7", "4", "8", "3", "6", "4", "8">>
v_m2147483648 == <<"-", "2", "1", "4", "7", "4", "8", "3", "6", "4", "8">>
v_m2147483649 == <<"-", "2", "1", "4", "7", "4", "8", "3", "6", "4", "9">>
v_3000000000 == <<"3", "0", "0", "0", "0", "0", "0", "0", "0", "0">>
v_1_5 == <<"1", ".", "5">>
v_3_25 == <<"3", ".", "2", "5">>
v_big_decimal == <<"1", "2", "3", "4", "5", "6", "7", "8", "9", "0", "1", ".", "1", "2", "3">>
v_abc == <<"a", "b", "c">>
v_12a == <<"1", "2", "a">>
v_hello == <<"h", "e", "l", "l", "o">>
v_date_iso == <<"2", "0", "2", "3", "-", "0", "1", "-", "1", "5">>
v_date_us == <<"0", "1", "/", "1", "5", "/", "2", "0", "2", "3">>
v_date_dmy == <<"1", "5", "-", "0", "1", "-", "2", "0", "2", "3">>
v_date_slash == <<"2", "0", "2", "3", "/", "0", "1", "/", "1", "5">>
v_date_bad == <<"2", "0", "2", "3", "-", "1", "3", "-", "4", "5">>
v_datetime_iso == <<"2", "0", "2", "3", "-", "0", "1", "-", "1", "5", " ", "1", "0", ":", "3", "0", ":", "0", "0">>
v_datetime_us == <<"0", "1", "/", "1", "5", "/", "2", "0", "2", "3", " ", "1", "0", ":", "3", "0", ":", "0", "0">>

BooleanTexts == {v_true, v_No, v_1, v_0, v_Y}
IntegerTexts == {v_2, v_2_0, v_m128, v_m129, v_127, v_128, v_200, v_32767, v_32768, v_m32768, v_m32769, v_40000, v_2147483647, v_2147483648, v_m2147483648, v_m2147483649, v_3000000000}
DecimalTexts == {v_1_5, v_3_25, v_big_decimal}
PlainTexts == {v_abc, v_12a, v_hello}
DateTexts == {v_date_iso, v_date_us, v_date_dmy, v_date_slash, v_date_bad}
DatetimeTexts == {v_datetime_iso, v_datetime_us}

ValuePool ==
    BooleanTexts \cup IntegerTexts \cup DecimalTexts \cup PlainTexts
        \cup DateTexts \cup DatetimeTexts \cup {Null}

\* every column of at most MaxLen values
ShortColumns == UNION {[1..n -> ValuePool] : n \in 0..MaxLen}

\* columns longer than the rows _is_date parses: HeadRows copies of one value
\* followed by another value
LongColumns ==
    {[i \in 1..(HeadRows + 1) |-> IF i <= HeadRows THEN v ELSE w] :
        v \in ValuePool \ {Null}, w \in ValuePool \ {Null}}

\* the columns of the specification's examples
ExampleColumns ==
    { <<v_1_5, v_2, v_3_25>>, <<v_true, v_No, v_1, v_0>> }

Columns == ShortColumns \cup LongColumns \cup ExampleColumns

\* max_varchar_length: the default of infer_sql_type and a small bound that the
\* texts of the pool exceed
MaxVarcharChoices == {5, 255}

(***************************************************************************)
(* CSVConverter._clean_column_name                                         *)
(***************************************************************************)
WordChars == LowerLetters \cup UpperLetters \cup Digits \cup {"_"}

\* re.sub(r'[^a-zA-Z0-9_]', '_', str(col_name))
replace_special(s) == [i \in 1..Len(s) |-> IF s[i] \in WordChars THEN s[i] ELSE "_"]

\* re.sub(r'_+', '_', clean_name)
RECURSIVE collapse_underscores(_)
collapse_underscores(s) ==
    IF Len(s) <= 1 THEN s
    ELSE IF s[1] = "_" /\ s[2] = "_" THEN collapse_underscores(Tail(s))
    ELSE <<Head(s)>> \o collapse_underscores(Tail(s))

RECURSIVE lstrip_underscores(_)
lstrip_underscores(s) ==
    IF s # <<>> /\ Head(s) = "_" THEN lstrip_underscores(Tail(s)) ELSE s

RECURSIVE rstrip_underscores(_)
rstrip_underscores(s) ==
    IF s # <<>> /\ s[Len(s)] = "_"
    THEN rstrip_underscores(SubSeq(s, 1, Len(s) - 1))
    ELSE s

\* clean_name.strip('_')
strip_underscores(s) == rstrip_underscores(lstrip_underscores(s))

col_prefix == <<"c", "o", "l", "_">>
unnamed_column ==
    <<"u", "n", "n", "a", "m", "e", "d", "_", "c", "o", "l", "u", "m", "n">>

\* if clean_name and clean_name[0].isdigit(): clean_name = 'col_' + clean_name
prefix_digit(s) ==
    IF s # <<>> /\ s[1] \in Digits THEN col_prefix \o s ELSE s

\* variant: the col_ prefix decided before the underscores are trimmed
clean_column_name_prefix_before_strip(name) ==
    LET c == strip_underscores(prefix_digit(collapse_underscores(replace_special(name))))
    IN  IF c = <<>> THEN unnamed_column ELSE c

\* variant: no col_ prefix
clean_column_name_no_prefix(name) ==
    LET c == strip_underscores(collapse_underscores(replace_special(name)))
    IN  IF c = <<>> THEN unnamed_column ELSE c

\* _clean_column_name
clean_column_name(name) ==
    LET c == prefix_digit(strip_underscores(collapse_underscores(replace_special(name))))
    IN  IF c = <<>> THEN unnamed_column ELSE c

\* the characters header texts are drawn from: a letter, a digit, the
\* underscore, a blank and a punctuation character
NameAlphabet == {"a", "2", "_", " ", "("}

\* the header of the specification's example, "2023 Revenue (USD)"
ExampleName ==
    <<"2", "0", "2", "3", " ", "R", "e", "v", "e", "n", "u", "e", " ",
      "(", "U", "S", "D", ")">>

Names == UNION {[1..n -> NameAlphabet] : n \in 0..MaxNameLen} \cup {ExampleName}

(***************************************************************************)
(* Type inference of one column: infer_sql_type applied to a column.       *)
(***************************************************************************)
InitInfer ==
    /\ csv_column \in Columns
    /\ series = <<>>
    /\ max_varchar_length \in MaxVarcharChoices
    /\ sql_type = Pending
    /\ infer_pc = "start"
    /\ col_name = <<>>
    /\ clean_name = <<>>
    /\ reclean_name = <<>>
    /\ clean_pc = "idle"
    /\ MenuIdle /\ CliIdle /\ ConfigIdle

\* analyze_csv on one column: df[col] of the file read, then infer_sql_type
InferSqlType ==
    /\ infer_pc = "start"
    /\ series' = read_csv_column(csv_column)
    /\ sql_type' = infer_sql_type(series', max_varchar_length)
    /\ infer_pc' = "done"
    /\ UNCHANGED <<csv_column, max_varchar_length>>
    /\ UNCHANGED <<cleanVars, menuVars, cliVars, configVars>>

NextInfer == InferSqlType

SpecInfer == InitInfer /\ [][NextInfer]_vars

(***************************************************************************)
(* Sanitizing one header: _clean_column_name applied to a header text, and *)
(* applied again to its own result.                                        *)
(***************************************************************************)
InitClean ==
    /\ col_name \in Names
    /\ clean_name = <<>>
    /\ reclean_name = <<>>
    /\ clean_pc = "start"
    /\ csv_column = <<>>
    /\ series = <<>>
    /\ max_varchar_length = 255
    /\ sql_type = Pending
    /\ infer_pc = "idle"
    /\ MenuIdle /\ CliIdle /\ ConfigIdle

CleanColumnName ==
    /\ clean_pc = "start"
    /\ clean_name' = clean_column_name(col_name)
    /\ clean_pc' = "cleaned"
    /\ UNCHANGED <<col_name, reclean_name>>
    /\ UNCHANGED <<inferVars, menuVars, cliVars, configVars>>

CleanAgain ==
    /\ clean_pc = "cleaned"
    /\ reclean_name' = clean_column_name(clean_name)
    /\ clean_pc' = "recleaned"
    /\ UNCHANGED <<col_name, clean_name>>
    /\ UNCHANGED <<inferVars, menuVars, cliVars, configVars>>

NextClean == CleanColumnName \/ CleanAgain

SpecClean == InitClean /\ [][NextClean]_vars

(***************************************************************************)
(* Properties of the type inferrer, checked under SpecInfer.               *)
(***************************************************************************)
InferDone == infer_pc = "done"

\* the values of the column that are present
NonNull == dropna(series)
NonNullValues == Range(NonNull)

ParsesAsNumber(v) == ~to_numeric(v).nan
ParsesAsInteger(v) == ParsesAsNumber(v) /\ ~to_numeric(v).frac
IsBooleanToken(v) == Lower(v) \in boolean_vals

\* C1: when at least one non-null value of the column does not parse as a
\* number, the inferred type is none of TINYINT, SMALLINT, INT, BIGINT, DECIMAL.
C1_NumericAllOrNothing ==
    (InferDone /\ \E v \in NonNullValues : ~ParsesAsNumber(v))
        => sql_type \notin NumericTypes

\* the rules of infer_sql_type in their order; rule 7 is the default
RuleMatches(k, s) ==
    CASE k = 1 -> s = <<>>
      [] k = 2 -> s # <<>> /\ is_boolean(s)
      [] k = 3 -> s # <<>> /\ is_integer(s)
      [] k = 4 -> s # <<>> /\ is_float(s)
      [] k = 5 -> s # <<>> /\ is_date(s)
      [] k = 6 -> s # <<>> /\ is_datetime(s)
      [] k = 7 -> TRUE

RuleGives(k, t) ==
    CASE k = 1 -> t = TEXT
      [] k = 2 -> t = BOOLEAN_T
      [] k = 3 -> t \in IntegerTypes
      [] k = 4 -> t = DECIMAL_10_2
      [] k = 5 -> t = DATE_T
      [] k = 6 -> t = DATETIME_T
      [] k = 7 -> t.name \in {"VARCHAR", "TEXT"}

FirstMatchingRule(s) ==
    CHOOSE k \in 1..7 : RuleMatches(k, s) /\ \A j \in 1..(k - 1) : ~RuleMatches(j, s)

WithinRange(lo, hi) ==
    \A v \in NonNullValues :
        NumLeq(lo, to_numeric(v)) /\ NumLeq(to_numeric(v), hi)

NarrowestIntegerType ==
    IF WithinRange(Lit(TRUE, <<"1", "2", "8">>), Lit(FALSE, <<"1", "2", "7">>))
    THEN TINYINT
    ELSE IF WithinRange(Lit(TRUE, <<"3", "2", "7", "6", "8">>),
                        Lit(FALSE, <<"3", "2", "7", "6", "7">>))
    THEN SMALLINT
    ELSE IF WithinRange(Lit(TRUE, <<"2", "1", "4", "7", "4", "8", "3", "6", "4", "8">>),
                        Lit(FALSE, <<"2", "1", "4", "7", "4", "8", "3", "6", "4", "7">>))
    THEN INT_T
    ELSE BIGINT

AllIntegerColumn ==
    NonNull # <<>> /\ \A v \in NonNullValues : ParsesAsInteger(v)

\* C3 as stated: every column whose values all parse as integers gets the
\* narrowest integer type that holds its minimum and maximum.
C3_AsStated ==
    (InferDone /\ AllIntegerColumn) => sql_type = NarrowestIntegerType

\* C3, amended: every column whose values all parse as integers, and are not all
\* boolean tokens, gets the narrowest integer type that holds its minimum and
\* maximum: TINYINT within [-128,127], SMALLINT within [-32768,32767], INT
\* within the 32-bit signed range, BIGINT otherwise.
C3_NarrowestInteger ==
    (InferDone /\ AllIntegerColumn /\ ~(\A v \in NonNullValues : IsBooleanToken(v)))
        => sql_type = NarrowestIntegerType

\* a range that includes 200 and 40000 and 3000000000 in turn
C3_Witness ==
    /\ InferDone
    /\ csv_column = <<v_200, v_m128>>
    /\ sql_type = SMALLINT

C6_DateNeedsFullColumn ==
    (InferDone /\ sql_type = DATE_T)
        => /\ \E k \in 1..Len(date_patterns) : ReMatch(date_patterns[k], NonNull[1])
           /\ \A v \in NonNullValues : ~to_datetime_isna(v)

IsDatetimeText(v) ==
    /\ \E k \in 1..Len(datetime_patterns) : ReMatch(datetime_patterns[k], v)
    /\ ~to_datetime_isna(v)

\* C7: a column whose values match a date-time pattern and parse as date-times
\* is DATETIME.
C7_DatetimeClassified ==
    (InferDone /\ NonNull # <<>> /\ \A v \in NonNullValues : IsDatetimeText(v))
        => sql_type = DATETIME_T

NoEarlierRule ==
    /\ NonNull # <<>>
    /\ ~is_boolean(NonNull) /\ ~is_integer(NonNull) /\ ~is_float(NonNull)
    /\ ~is_date(NonNull) /\ ~is_datetime(NonNull)

Min(a, b) == IF a < b THEN a ELSE b

\* round(L * 1.2): 1.2 L is never halfway between two integers
RoundScaled(L) == (12 * L + 5) \div 10
\* floor(L * 1.2)
FloorScaled(L) == (12 * L) \div 10

\* C8 as stated: the default rule gives VARCHAR(min(round(L * 1.2), M)) when
\* L <= M and TEXT when L > M.
C8_AsStated ==
    (InferDone /\ NoEarlierRule)
        => LET L == max_length(NonNull)
               M == max_varchar_length
           IN  IF L <= M THEN sql_type = Varchar(Min(RoundScaled(L), M))
               ELSE sql_type = TEXT

\* C8, amended: the default rule gives VARCHAR(min(floor(L * 1.2), M)) when
\* L <= M and TEXT when L > M; the declared length is never below L and never
\* above M.
C8_VarcharLength ==
    (InferDone /\ NoEarlierRule)
        => LET L == max_length(NonNull)
               M == max_varchar_length
           IN  IF L <= M
               THEN /\ sql_type = Varchar(Min(FloorScaled(L), M))
                    /\ sql_type.n >= L /\ sql_type.n <= M
               ELSE sql_type = TEXT

\* a length of 3 under the default bound: 3.6 is truncated to 3
C8_Witness ==
    /\ InferDone
    /\ NoEarlierRule
    /\ max_length(NonNull) = 3
    /\ max_varchar_length = 255
    /\ sql_type = Varchar(3)

(***************************************************************************)
(* Properties of the sanitizer, checked under SpecClean.                   *)
(***************************************************************************)
IsSanitizedIdentifier(s) ==
    /\ s # <<>>
    /\ \A i \in 1..Len(s) : s[i] \in WordChars
    /\ s[1] \notin Digits

col_2023_Revenue_USD ==
    <<"c", "o", "l", "_", "2", "0", "2", "3", "_", "R", "e", "v", "e", "n",
      "u", "e", "_", "U", "S", "D">>

\* C9: the sanitized name is non-empty, holds only letters, digits and
\* underscores and does not start with a digit; "2023 Revenue (USD)" gives
\* "col_2023_Revenue_USD".
C9_SanitizedIdentifier ==
    clean_pc \in {"cleaned", "recleaned"}
        => /\ IsSanitizedIdentifier(clean_name)
           /\ col_name = ExampleName => clean_name = col_2023_Revenue_USD

C9_Witness ==
    /\ clean_pc = "cleaned"
    /\ col_name = ExampleName
    /\ clean_name = col_2023_Revenue_USD

\* C10: sanitizing a sanitized name gives the same name.
C10_Idempotent ==
    clean_pc = "recleaned" => reclean_name = clean_name

\* one header that takes the col_ prefix
C10_Witness ==
    /\ clean_pc = "recleaned"
    /\ Len(clean_name) > 4
    /\ SubSeq(clean_name, 1, 4) = col_prefix
    /\ col_name[1] # "c"
    /\ reclean_name = clean_name

(***************************************************************************)
(* The menu-driven program, convert_to_sql.py.                             *)
(*                                                                         *)
(* A file is a sequence of rows, the header first, each row a sequence of  *)
(* field texts.  The server holds, per database, its tables; a table has   *)
(* typed columns and rows.  A value of a row is tagged with the Python     *)
(* type the program holds it in (int or str).                              *)
(***************************************************************************)
Letters == LowerLetters \cup UpperLetters

\* str.isalpha() and str.isdigit()
isalpha(v) == v # <<>> /\ \A i \in 1..Len(v) : v[i] \in Letters
isdigit(v) == v # <<>> /\ AllDigits(v)

IntValue(v) ==
    [tag |-> "int", txt |-> IF StripZeros(v) = <<>> THEN <<"0">> ELSE StripZeros(v)]
StrValue(v) == [tag |-> "str", txt |-> v]

\* csv_data: a field that isdigit() becomes an int, any other stays a str
format_value(v) == IF isdigit(v) THEN IntValue(v) ELSE StrValue(v)

\* csv_data: every row of the file, the header included
csv_data(rows) ==
    [r \in 1..Len(rows) |-> [c \in 1..Len(rows[r]) |-> format_value(rows[r][c])]]

\* create_table: what one field of the second row appends to data_types; the
\* test `elif i.isnumeric:` names the method without calling it and is always
\* true, so a field that is neither alphabetic nor digits appends "float" when
\* it holds a "." and nothing otherwise
field_types(i) ==
    IF isalpha(i) THEN <<"varchar(255)">>
    ELSE IF isdigit(i) THEN <<"int(11)">>
    ELSE IF "." \in Range(i) THEN <<"float">>
    ELSE <<>>

\* create_table: data_types of the second row
RECURSIVE data_types_of(_)
data_types_of(row) ==
    IF row = <<>> THEN <<>>
    ELSE field_types(Head(row)) \o data_types_of(Tail(row))

\* str.strip()
RECURSIVE lstrip(_)
lstrip(v) == IF v # <<>> /\ Head(v) \in Blanks THEN lstrip(Tail(v)) ELSE v
RECURSIVE rstrip(_)
rstrip(v) ==
    IF v # <<>> /\ v[Len(v)] \in Blanks THEN rstrip(SubSeq(v, 1, Len(v) - 1)) ELSE v
strip(v) == rstrip(lstrip(v))

no == <<"n", "o">>

(***************************************************************************)
(* The MySQL server behind the cursor: which statements it accepts and     *)
(* what they change.                                                       *)
(***************************************************************************)
\* an unquoted identifier the server parses: word characters, not only digits
accepted_identifier(name) ==
    /\ name # <<>>
    /\ \A i \in 1..Len(name) : name[i] \in WordChars
    /\ ~AllDigits(name)

Column(name, type) == [name |-> name, type |-> type]
Table(cols, rows) == [cols |-> cols, rows |-> rows]

\* the value a column of the given type returns for a value inserted into it
stored_value(type, v) ==
    IF type = "varchar(255)" THEN StrValue(v.txt)
    ELSE IF type = "float" THEN [tag |-> "float", txt |-> v.txt]
    ELSE v

stored_row(cols, row) == [c \in 1..Len(row) |-> stored_value(cols[c].type, row[c])]

\* the text of a Python tuple of one value ends in ",)", which the server does
\* not parse; a row must have one value per column; an integer column takes
\* integers and a float column numbers
insert_accepted(cols, row) ==
    /\ Len(row) = Len(cols)
    /\ Len(row) # 1
    /\ \A c \in 1..Len(row) :
          /\ cols[c].type = "int(11)" => row[c].tag = "int"
          /\ cols[c].type = "float" => ~to_numeric(row[c].txt).nan

\* a statement the cursor executes: its kind, the database, table and column
\* names and the values written into its text, and the values passed beside
\* the text as parameters
Stmt(kind, db, table, column, values) ==
    [kind |-> kind, db |-> db, table |-> table, column |-> column,
     values |-> values, params |-> <<>>]

\* the smallest element of a set of indices, 0 for the empty set
First(S) == IF S = {} THEN 0 ELSE CHOOSE j \in S : \A k \in S : j <= k

\* variant: the slice starts one row later, [2:]
rows_after_first_record(data) == Tail(Tail(data))

\* receive_csv_data[1:] and csv_data_list[1:]: every row after the header
rows_after_header(data) == Tail(data)

\* the outcome of a handler: what it left on the server, the statements it
\* executed in order, how it ended, and what it computed on the way
Result(srv, executed, outcome, types, snapshot, new_rows, inserted) ==
    [server |-> srv, stmts |-> executed, outcome |-> outcome,
     data_types |-> types, snapshot |-> snapshot, new_rows |-> new_rows,
     inserted |-> inserted]

\* lines 132-136: `use` and `show tables`, which open both branches
use_and_show(db) ==
    <<Stmt("use", db, <<>>, <<>>, <<>>), Stmt("show tables", db, <<>>, <<>>, <<>>)>>

\* the insert statements for rows[from..to] of the formatted data: the tuple
\* of the row is written into the text of the statement
insert_stmts(db, table, data, from, to) ==
    [k \in 1..(IF to < from THEN 0 ELSE to - from + 1) |->
        Stmt("insert", db, table, <<>>, data[from + k - 1])]

\* create_table, lines 148-165: the branch that creates table_name from the
\* header and the second row and inserts every data row, committing once at
\* the end.  An exception ends the program: the server keeps the DDL, which
\* commits by itself, and rolls back the inserts of the lost connection.
create_new_table(srv, db, table_name, rows) ==
    LET first_row_data == rows[1]
        data_types == data_types_of(rows[2])
        no_of_cols == Len(first_row_data)
        \* the f-string of statement i reads data_types[i - 1] in Python
        index_error(i) == i > Len(data_types)
        rejected(i) ==
            IF i = 1
            THEN \/ ~accepted_identifier(table_name)
                 \/ table_name \in DOMAIN srv[db]
                 \/ ~accepted_identifier(first_row_data[1])
            ELSE \/ ~accepted_identifier(first_row_data[i])
                 \/ \E k \in 1..(i - 1) : first_row_data[k] = first_row_data[i]
        ddl_stop == First({i \in 1..no_of_cols : index_error(i) \/ rejected(i)})
        made == IF ddl_stop = 0 THEN no_of_cols ELSE ddl_stop - 1
        cols == [i \in 1..made |-> Column(first_row_data[i], data_types[i])]
        ddl_sent == IF ddl_stop = 0 THEN no_of_cols
                    ELSE IF index_error(ddl_stop) THEN ddl_stop - 1 ELSE ddl_stop
        ddl == [i \in 1..ddl_sent |->
                  IF i = 1
                  THEN Stmt("create table", db, table_name, first_row_data[1], <<>>)
                  ELSE Stmt("alter table", db, table_name, first_row_data[i], <<>>)]
        receive_csv_data == rows_after_header(csv_data(rows))
        ins_stop == First({r \in 1..Len(receive_csv_data) :
                              ~insert_accepted(cols, receive_csv_data[r])})
        sent_to == IF ins_stop = 0 THEN Len(receive_csv_data) ELSE ins_stop
        committed == IF ins_stop = 0
                     THEN [k \in 1..Len(receive_csv_data) |->
                             stored_row(cols, receive_csv_data[k])]
                     ELSE <<>>
        with_table == IF made = 0 THEN srv
                      ELSE [srv EXCEPT ![db] =
                              [t \in DOMAIN srv[db] \cup {table_name} |->
                                  IF t = table_name THEN Table(cols, <<>>) ELSE srv[db][t]]]
    IN  IF ddl_stop # 0
        THEN Result(with_table, use_and_show(db) \o ddl,
                    IF index_error(ddl_stop) THEN "IndexError" ELSE "ProgrammingError",
                    data_types, <<>>, <<>>, <<>>)
        ELSE Result([with_table EXCEPT ![db][table_name].rows = committed],
                    use_and_show(db) \o ddl
                        \o insert_stmts(db, table_name, receive_csv_data, 1, sent_to),
                    IF ins_stop = 0 THEN "done" ELSE "DatabaseError",
                    data_types, <<>>, <<>>, committed)

\* Python's == between a value of csv_data and a value the cursor fetched: an
\* int equals an int or a float of the same number, a str equals the same str
py_eq(a, b) ==
    IF a.tag = "str" \/ b.tag = "str" THEN a = b
    ELSE /\ ~to_numeric(b.txt).frac
         /\ to_numeric(a.txt).digs = to_numeric(b.txt).digs

\* `row in existing_data` on lists
row_in(row, existing_data) ==
    \E e \in 1..Len(existing_data) :
        /\ Len(existing_data[e]) = Len(row)
        /\ \A c \in 1..Len(row) : py_eq(row[c], existing_data[e][c])

\* variant: every row is taken as new
new_data_to_insert_unfiltered(data_rows, existing_data) == data_rows

\* lines 182-185: the rows of csv_data_list[1:] not in existing_data, in order
RECURSIVE new_data_to_insert(_, _)
new_data_to_insert(data_rows, existing_data) ==
    IF data_rows = <<>> THEN <<>>
    ELSE (IF row_in(Head(data_rows), existing_data) THEN <<>> ELSE <<Head(data_rows)>>)
         \o new_data_to_insert(Tail(data_rows), existing_data)

\* newchanges_existingtable_table, lines 175-195: the select is executed on
\* whatever name was entered; the new rows are inserted one statement each
\* and committed once at the end
newchanges_existingtable_table(srv, db, existing_table, rows) ==
    LET query_check_existing == Stmt("select", db, existing_table, <<>>, <<>>)
        found == accepted_identifier(existing_table) /\ existing_table \in DOMAIN srv[db]
        cols == srv[db][existing_table].cols
        existing_data == srv[db][existing_table].rows
        csv_data_list == csv_data(rows)
        new_rows == new_data_to_insert(rows_after_header(csv_data_list), existing_data)
        ins_stop == First({r \in 1..Len(new_rows) : ~insert_accepted(cols, new_rows[r])})
        sent_to == IF ins_stop = 0 THEN Len(new_rows) ELSE ins_stop
        committed == IF ins_stop = 0
                     THEN [k \in 1..Len(new_rows) |-> stored_row(cols, new_rows[k])]
                     ELSE <<>>
    IN  IF ~found
        THEN Result(srv, use_and_show(db) \o <<query_check_existing>>,
                    "ProgrammingError", data_types_of(rows[2]), <<>>, <<>>, <<>>)
        ELSE Result([srv EXCEPT ![db][existing_table].rows = existing_data \o committed],
                    use_and_show(db) \o <<query_check_existing>>
                        \o insert_stmts(db, existing_table, new_rows, 1, sent_to),
                    IF ins_stop = 0 THEN "done" ELSE "DatabaseError",
                    data_types_of(rows[2]), existing_data, new_rows, committed)

\* create_table, lines 105-171
create_table(srv, db, f, table_input, existing_input) ==
    LET table_name == Lower(strip(table_input))
    IN  IF ~f.exists
        THEN Result(srv, <<>>, "FileNotFoundError", <<>>, <<>>, <<>>, <<>>)
        ELSE IF Len(f.rows) < 2
        THEN Result(srv, <<>>, "StopIteration", <<>>, <<>>, <<>>, <<>>)
        ELSE IF db = "None"
        THEN Result(srv, <<>>, "TypeError", data_types_of(f.rows[2]), <<>>, <<>>, <<>>)
        ELSE IF db \notin DOMAIN srv
        THEN Result(srv, <<Stmt("use", db, <<>>, <<>>, <<>>)>>, "ProgrammingError",
                    data_types_of(f.rows[2]), <<>>, <<>>, <<>>)
        ELSE IF table_name # no
        THEN create_new_table(srv, db, table_name, f.rows)
        ELSE newchanges_existingtable_table(srv, db, strip(existing_input), f.rows)

(***************************************************************************)
(* The run of the menu: main() reads a choice and calls its handler; an    *)
(* exception of a handler is caught nowhere and ends the program.          *)
(***************************************************************************)
f_id == <<"i", "d">>
f_name == <<"n", "a", "m", "e">>
f_spaced == <<"a", " ", "b">>
f_date == <<"2", "0", "2", "3", "-", "0", "1", "-", "1", "5">>
f_float == <<"1", ".", "5">>
t_existing == <<"t">>
t_other == <<"u">>

Headers == {<<f_id, f_name>>, <<f_spaced, f_name>>}

RowPool ==
    { <<<<"2">>, <<"b">>>>, <<<<"3">>, <<"c">>>>, <<<<"3">>, <<"7">>>>,
      <<<<"4">>>>, <<f_date, <<"b">>>>, <<f_float, <<"b">>>> }

RECURSIVE RowsUpTo(_)
RowsUpTo(n) ==
    IF n = 0 THEN {<<>>}
    ELSE RowsUpTo(n - 1)
         \cup {Append(rs, r) : rs \in {x \in RowsUpTo(n - 1) : Len(x) = n - 1}, r \in RowPool}

File(rows) == [exists |-> TRUE, rows |-> rows]
MissingFile == [exists |-> FALSE, rows |-> <<>>]
Files == {File(<<h>> \o d) : h \in Headers, d \in RowsUpTo(MaxRows)} \cup {MissingFile}

\* the server before the program starts: database d1 with table t(id, name)
\* holding (1, a) and (2, b)
InitialServer ==
    [d \in {"d1"} |->
        [t \in {t_existing} |->
            Table(<<Column(f_id, "int(11)"), Column(f_name, "varchar(255)")>>,
                  << <<IntValue(<<"1">>), StrValue(<<"a">>)>>,
                     <<IntValue(<<"2">>), StrValue(<<"b">>)>> >>)]]

DatabaseInputs == {"d1", "d2", "no"}
TableInputs == {t_other, <<" ", "T", " ">>, <<"m", "y", " ", "t">>, no}
ExistingTableInputs == {t_existing, t_other}

Last(op, mode, table, r) ==
    [op |-> op, mode |-> mode, table |-> table, outcome |-> r.outcome,
     data_types |-> r.data_types, snapshot |-> r.snapshot,
     new_rows |-> r.new_rows, inserted |-> r.inserted]

NoResult == Result(<<>>, <<>>, "none", <<>>, <<>>, <<>>, <<>>)

InitMenu ==
    /\ InferIdle /\ CleanIdle /\ CliIdle /\ ConfigIdle
    /\ file \in Files
    /\ server = InitialServer
    /\ current_db = "None"
    /\ menu_pc = "menu"
    /\ stmts = <<>>
    /\ server_before = InitialServer
    /\ last = Last("none", "none", <<>>, NoResult)
    /\ ops = 0

Handled(op, mode, table, r) ==
    /\ server_before' = server
    /\ server' = r.server
    /\ stmts' = r.stmts
    /\ last' = Last(op, mode, table, r)
    /\ menu_pc' = IF r.outcome \in {"done", "not found", "skipped"} THEN "menu" ELSE "crashed"
    /\ ops' = ops + 1
    /\ UNCHANGED <<file, inferVars, cleanVars, cliVars, configVars>>

\* preliminary(), lines 11-40; the session's database is set again by the `use`
\* of create_table, so only current_db is kept of it
preliminary(srv, name_of_database, which_existing_database) ==
    IF name_of_database # "no"
    THEN IF name_of_database \in DOMAIN srv
         THEN Result(srv, <<Stmt("create database", name_of_database, <<>>, <<>>, <<>>)>>,
                     "DatabaseError", <<>>, <<>>, <<>>, <<>>)
         ELSE Result([d \in DOMAIN srv \cup {name_of_database} |->
                         IF d = name_of_database THEN <<>> ELSE srv[d]],
                     <<Stmt("create database", name_of_database, <<>>, <<>>, <<>>),
                       Stmt("use", name_of_database, <<>>, <<>>, <<>>)>>,
                     "done", <<>>, <<>>, <<>>, <<>>)
    ELSE IF which_existing_database \in DOMAIN srv
         THEN Result(srv, <<Stmt("show databases", "", <<>>, <<>>, <<>>),
                            Stmt("use", which_existing_database, <<>>, <<>>, <<>>)>>,
                     "done", <<>>, <<>>, <<>>, <<>>)
         ELSE Result(srv, <<Stmt("show databases", "", <<>>, <<>>, <<>>)>>,
                     "not found", <<>>, <<>>, <<>>, <<>>)

Preliminary ==
    /\ menu_pc = "menu" /\ ops < MaxOps
    /\ \E name_of_database \in DatabaseInputs, which \in DatabaseInputs \ {"no"} :
          LET r == preliminary(server, name_of_database, which)
          IN  /\ Handled("preliminary", "none", <<>>, r)
              /\ current_db' = IF r.outcome # "done" THEN current_db
                               ELSE IF name_of_database # "no" THEN name_of_database
                               ELSE which

\* variant: the entered name is dropped without looking at the list
delete_database_unchecked(srv, delete_choice) ==
    Result([d \in DOMAIN srv \ {delete_choice} |-> srv[d]],
           <<Stmt("show databases", "", <<>>, <<>>, <<>>),
             Stmt("drop database", delete_choice, <<>>, <<>>, <<>>)>>,
           "done", <<>>, <<>>, <<>>, <<>>)

\* delete_database(), lines 60-74
delete_database(srv, delete_choice) ==
    IF delete_choice \in DOMAIN srv /\ delete_choice # "no"
    THEN Result([d \in DOMAIN srv \ {delete_choice} |-> srv[d]],
                <<Stmt("show databases", "", <<>>, <<>>, <<>>),
                  Stmt("drop database", delete_choice, <<>>, <<>>, <<>>)>>,
                "done", <<>>, <<>>, <<>>, <<>>)
    ELSE Result(srv, <<Stmt("show databases", "", <<>>, <<>>, <<>>)>>,
                IF delete_choice = "no" THEN "skipped" ELSE "not found",
                <<>>, <<>>, <<>>, <<>>)

DeleteDatabase ==
    /\ menu_pc = "menu" /\ ops < MaxOps
    /\ \E delete_choice \in DatabaseInputs :
          Handled("delete_database", "none", <<>>, delete_database(server, delete_choice))
    /\ UNCHANGED current_db

\* main(), choice "2": create_table(file_path)
CreateTable ==
    /\ menu_pc = "menu" /\ ops < MaxOps
    /\ \E table_input \in TableInputs, existing_input \in ExistingTableInputs :
          LET merge == Lower(strip(table_input)) = no
          IN  Handled("create_table", IF merge THEN "merge" ELSE "create",
                      IF merge THEN strip(existing_input) ELSE Lower(strip(table_input)),
                      create_table(server, current_db, file, table_input, existing_input))
    /\ UNCHANGED current_db

\* main(), choice "4"
Exit ==
    /\ menu_pc = "menu"
    /\ menu_pc' = "exited"
    /\ UNCHANGED <<file, server, current_db, stmts, server_before, last, ops,
                   inferVars, cleanVars, cliVars, configVars>>

NextMenu == Preliminary \/ CreateTable \/ DeleteDatabase \/ Exit

SpecMenu == InitMenu /\ [][NextMenu]_vars

(***************************************************************************)
(* Properties of the menu-driven program, checked under SpecMenu.          *)
(***************************************************************************)
\* create_table got as far as reading the header and the second row
ReadTwoRows == last.op = "create_table" /\ file.exists /\ Len(file.rows) >= 2

\* some data row has another number of fields than the header
Ragged(f) == \E r \in 2..Len(f.rows) : Len(f.rows[r]) # Len(f.rows[1])

\* C12: the analysis yields one inferred type per header field, whatever the
\* values of the sampled row are.
C12_OneTypePerHeaderField ==
    (ReadTwoRows /\ ~Ragged(file))
        => Len(last.data_types) = Len(file.rows[1])

MergeDone == last.op = "create_table" /\ last.mode = "merge" /\ last.outcome = "done"

\* exact structural equality of a row of the file and a row of the snapshot
SameTuple(row, e) == Len(row) = Len(e) /\ \A c \in 1..Len(row) : py_eq(row[c], e[c])
InSnapshot(row) == \E e \in 1..Len(last.snapshot) : SameTuple(row, last.snapshot[e])

C14_NoStatementOnUnknownTable ==
    (last.op = "create_table" /\ last.mode = "merge")
        => \A i \in 1..Len(stmts) :
              stmts[i].kind \in {"select", "insert"}
                  => stmts[i].table \in DOMAIN server_before[stmts[i].db]

\* the insertion of create_table failed at the statement of row j
InsertFailedAt(j) ==
    /\ last.op = "create_table" /\ last.mode = "create"
    /\ last.outcome = "DatabaseError"
    /\ Cardinality({i \in 1..Len(stmts) : stmts[i].kind = "insert"}) = j

\* C15: an insertion that fails at unit j leaves the units before j in the
\* table (a unit of create_table is one row, one statement each).
C15_EarlierChunksStay ==
    \A j \in 1..MaxRows :
        InsertFailedAt(j) => Len(server[current_db][last.table].rows) = j - 1

CreateDone == last.op = "create_table" /\ last.mode = "create" /\ last.outcome = "done"

\* C16: after a successful import into a new table the table has as many
\* columns as the header has fields and as many rows as the file has data
\* rows.
C16_RoundTripCounts ==
    CreateDone =>
        /\ Len(server[current_db][last.table].cols) = Len(file.rows[1])
        /\ Len(server[current_db][last.table].rows) = Len(file.rows) - 1

C16_Witness ==
    /\ CreateDone
    /\ Len(file.rows) = 3
    /\ Len(server[current_db][last.table].rows) = 2
    /\ Len(server[current_db][last.table].cols) = 2

\* C17: every insert passes its values as parameters and writes none of them
\* into the text of the statement.
C17_ValuesAsParameters ==
    \A i \in 1..Len(stmts) :
        stmts[i].kind = "insert"
            => stmts[i].values = <<>> /\ stmts[i].params # <<>>

\* C18: every table name and column name in a statement is a sanitized
\* identifier.
C18_IdentifiersSanitized ==
    \A i \in 1..Len(stmts) :
        stmts[i].kind \in {"create table", "alter table", "insert", "select"}
            => /\ IsSanitizedIdentifier(stmts[i].table)
               /\ stmts[i].column # <<>> => IsSanitizedIdentifier(stmts[i].column)

\* C19: an import that ends in error on a missing file or a ragged data row
\* has changed nothing on the server.
C19_ErrorLeavesServerUntouched ==
    (/\ last.op = "create_table"
     /\ last.outcome # "done"
     /\ ~file.exists \/ Ragged(file))
        => server = server_before

(***************************************************************************)
(* One run of a command of the command-line program, csv_converter_pro.py. *)
(* events lists, in order, the calls that reach for the gateway: connect,  *)
(* an operation on it (op), disconnect.                                    *)
(***************************************************************************)
f_dashed == <<"a", "-", "b">>
f_underscored == <<"a", "_", "b">>

CliHeaderNames == {f_id, f_spaced, f_dashed, f_underscored}
CliHeaders == {<<x, y>> : x \in CliHeaderNames, y \in CliHeaderNames}

\* pd.read_csv on the header: the k-th repeat of a name gets the suffix ".k"
read_csv_header(h) ==
    [i \in 1..Len(h) |->
        LET k == Cardinality({j \in 1..(i - 1) : h[j] = h[i]})
        IN  IF k = 0 THEN h[i] ELSE h[i] \o <<".", DigitSeq[k + 1]>>]

\* convert_csv_to_sql, line 408
cleaned_columns(h) ==
    [i \in 1..Len(h) |-> clean_column_name(read_csv_header(h)[i])]

Command(name, force, analyze_only, header, rows, parses, database_name) ==
    [name |-> name, force |-> force, analyze_only |-> analyze_only,
     header |-> header, rows |-> rows, parses |-> parses,
     database_name |-> database_name]

\* the data rows of the imported file: none, or one row
CliRows == {<<>>, << <<<<"2">>, <<"b">>>> >>}

\* parses is false for a file pd.read_csv raises on
Commands ==
    {Command("import_csv", FALSE, a, h, r, p, "") :
        a \in BOOLEAN, h \in CliHeaders, r \in CliRows, p \in BOOLEAN}
    \cup {Command(n, FALSE, FALSE, <<>>, <<>>, FALSE, "") :
            n \in {"list_databases", "list_tables"}}
    \cup {Command("create_database", FALSE, FALSE, <<>>, <<>>, FALSE, d) :
            d \in {"d1", "d2"}}
    \cup {Command("drop_database", f, FALSE, <<>>, <<>>, FALSE, d) :
            f \in BOOLEAN, d \in {"d1", "d2"}}

\* the database of the connection URL, and the stem of the imported file
configured_database == "d1"
csv_stem == <<"M", "y", " ", "d", "a", "t", "a">>

\* import_csv, line 641: Path(csv_file).stem.lower().replace(' ', '_').replace('-', '_')
derived_table_name(stem) ==
    [i \in 1..Len(stem) |->
        IF stem[i] \in {" ", "-"} THEN "_" ELSE LowerChar(stem[i])]

\* the frame pd.read_csv builds of the data rows: row r, column c
read_csv_frame(h, rows) ==
    [r \in 1..Len(rows) |->
        [c \in 1..Len(h) |-> read_csv_column([k \in 1..Len(rows) |-> rows[k][c]])[r]]]

\* df.to_sql(if_exists='append'): the table is created when it is missing and
\* the rows of the frame are appended to it
to_sql(srv, db, table_name, columns, frame) ==
    LET before == IF table_name \in DOMAIN srv[db] THEN srv[db][table_name]
                  ELSE Table([c \in 1..Len(columns) |-> Column(columns[c], "")], <<>>)
    IN  [srv EXCEPT ![db] =
            [t \in DOMAIN srv[db] \cup {table_name} |->
                IF t = table_name THEN Table(before.cols, before.rows \o frame)
                ELSE srv[db][t]]]

InitCli ==
    /\ InferIdle /\ CleanIdle /\ ConfigIdle
    /\ file = <<>> /\ current_db = "None" /\ menu_pc = "idle" /\ stmts = <<>>
    /\ server_before = <<>> /\ last = <<>> /\ ops = 0
    /\ server = InitialServer
    /\ command \in Commands
    /\ cli_pc = "start"
    /\ engine = "None"
    /\ events = <<>>
    /\ df_columns = <<>>
    /\ answer = "none"
    /\ cli_outcome = "running"
    /\ exit_code = -1

\* variant: a return inside the try block leaves the command at once
on_return_without_finally(cmd) == "done"

\* a return, or an exception, inside try ... finally runs the finally block
on_return(cmd) == "finally"

CliFrame ==
    UNCHANGED <<command, inferVars, cleanVars, configVars, file, current_db,
                menu_pc, stmts, server_before, last, ops>>

\* the command is entered; drop_database asks for confirmation before its try
\* block (lines 747-750): it returns when the prompt is declined, and an
\* aborted prompt ends the program with exit code 1
CliStart ==
    /\ cli_pc = "start"
    /\ IF command.name = "drop_database" /\ ~command.force
       THEN \E reply \in {"y", "n", "abort"} :
               /\ answer' = reply
               /\ cli_pc' = IF reply = "y" THEN "try" ELSE "done"
               /\ cli_outcome' = IF reply = "y" THEN cli_outcome
                                 ELSE IF reply = "n" THEN "cancelled" ELSE "aborted"
               /\ exit_code' = IF reply = "y" THEN exit_code
                               ELSE IF reply = "n" THEN 0 ELSE 1
       ELSE cli_pc' = "try" /\ UNCHANGED <<answer, cli_outcome, exit_code>>
    /\ UNCHANGED <<engine, events, df_columns, server>>
    /\ CliFrame

\* converter.connect(), lines 231-247: the engine is created, then tried; an
\* SQLAlchemyError gives False, any other exception leaves connect and is
\* caught by import_csv only
CliConnect ==
    /\ cli_pc = "try"
    /\ \E outcome \in {"ok", "refused", "raised"} :
          /\ engine' = IF outcome = "raised" THEN engine ELSE "engine"
          /\ cli_pc' = IF outcome # "ok" THEN on_return(command)
                       ELSE IF command.name = "import_csv" THEN "analyze"
                       ELSE "call"
          /\ cli_outcome' = IF outcome = "ok" THEN cli_outcome
                            ELSE IF outcome = "refused" THEN "connect failed"
                            ELSE IF command.name = "import_csv" THEN "error"
                            ELSE "uncaught"
    /\ events' = Append(events, "connect")
    /\ UNCHANGED <<df_columns, answer, exit_code, server>>
    /\ CliFrame

\* import_csv, lines 606-637: analyze_csv returns {} when reading the file
\* raised
CliAnalyze ==
    /\ cli_pc = "analyze"
    /\ cli_pc' = IF ~command.parses \/ command.analyze_only
                 THEN on_return(command) ELSE "confirm"
    /\ cli_outcome' = IF ~command.parses THEN "analysis failed"
                      ELSE IF command.analyze_only THEN "analyze only"
                      ELSE cli_outcome
    /\ UNCHANGED <<engine, events, df_columns, answer, exit_code, server>>
    /\ CliFrame

\* variant: the import goes on whatever the reply is
after_confirm_any_reply(reply, cmd) == "convert"

\* import_csv, lines 643-647: only a yes goes on to the import
after_confirm(reply, cmd) == IF reply = "y" THEN "convert" ELSE on_return(cmd)

\* import_csv, lines 643-647: click.confirm; an aborted prompt raises and is
\* caught by `except Exception`
CliConfirm ==
    /\ cli_pc = "confirm"
    /\ \E reply \in {"y", "n", "abort"} :
          /\ answer' = reply
          /\ cli_pc' = after_confirm(reply, command)
          /\ cli_outcome' = IF reply = "y" THEN cli_outcome
                            ELSE IF reply = "n" THEN "cancelled" ELSE "error"
    /\ UNCHANGED <<engine, events, df_columns, exit_code, server>>
    /\ CliFrame

\* import_csv, lines 650-656, and convert_csv_to_sql, lines 401-427: to_sql
\* refuses repeated column names, before or after it reached the gateway; the
\* gateway may fail; every exception gives False
CliConvert ==
    /\ cli_pc = "convert"
    /\ df_columns' = cleaned_columns(command.header)
    /\ LET repeated == \E i, j \in 1..Len(df_columns') :
                           i # j /\ df_columns'[i] = df_columns'[j]
       IN  \E reached \in BOOLEAN, gateway_ok \in BOOLEAN :
              /\ ~reached => repeated
              /\ events' = IF reached THEN Append(events, "op") ELSE events
              /\ IF ~repeated /\ gateway_ok
                 THEN /\ server' = to_sql(server, configured_database,
                                          derived_table_name(csv_stem), df_columns',
                                          read_csv_frame(command.header, command.rows))
                      /\ cli_outcome' = "imported"
                 ELSE server' = server /\ cli_outcome' = "import failed"
    /\ cli_pc' = "finally"
    /\ UNCHANGED <<engine, answer, exit_code>>
    /\ CliFrame

\* list_databases, list_tables, create_database, drop_database of the
\* converter, lines 255-343: one operation on the gateway; an SQLAlchemyError
\* gives an empty list or False
CliCall ==
    /\ cli_pc = "call"
    /\ events' = Append(events, "op")
    /\ \E gateway_ok \in BOOLEAN :
          IF command.name \in {"list_databases", "list_tables"}
          THEN server' = server /\ cli_outcome' = "listed"
          ELSE IF ~gateway_ok
          THEN /\ server' = server
               /\ cli_outcome' = IF command.name = "create_database"
                                 THEN "create failed" ELSE "drop failed"
          ELSE IF command.name = "create_database"
          THEN /\ server' = [d \in DOMAIN server \cup {command.database_name} |->
                                IF d \in DOMAIN server THEN server[d] ELSE <<>>]
               /\ cli_outcome' = "created"
          ELSE /\ server' = [d \in DOMAIN server \ {command.database_name} |-> server[d]]
               /\ cli_outcome' = "dropped"
    /\ cli_pc' = "finally"
    /\ UNCHANGED <<engine, df_columns, answer, exit_code>>
    /\ CliFrame

\* finally: converter.disconnect(), lines 249-253; then cli() ends the
\* program (lines 831-832): exit code 0 unless an exception left the command
CliFinally ==
    /\ cli_pc = "finally"
    /\ events' = Append(events, "disconnect")
    /\ engine' = IF engine = "engine" THEN "disposed" ELSE engine
    /\ cli_pc' = "done"
    /\ exit_code' = IF cli_outcome = "uncaught" THEN 1 ELSE 0
    /\ UNCHANGED <<df_columns, answer, cli_outcome, server>>
    /\ CliFrame

NextCli ==
    CliStart \/ CliConnect \/ CliAnalyze \/ CliConfirm \/ CliConvert \/ CliCall
        \/ CliFinally

\* the steps of a command follow one another; a prompt is answered
SpecCli == InitCli /\ [][NextCli]_vars /\ WF_vars(NextCli)

(***************************************************************************)
(* Properties of the command-line program, checked under SpecCli.          *)
(***************************************************************************)
\* C11: the column names given to the table are pairwise distinct.
C11_ColumnNamesDistinct ==
    \A i, j \in 1..Len(df_columns) : i # j => df_columns[i] # df_columns[j]

Called(e) == \E i \in 1..Len(events) : events[i] = e

\* C20 as stated: every command that ended has called disconnect.
C20_AsStated == cli_pc = "done" => Called("disconnect")

\* C20: once connect was called disconnect is eventually called, it is the
\* last call of the run, and a run that never called connect calls nothing.
C20_ConnectionReleased ==
    /\ [](\A i \in 1..Len(events) :
              /\ events[i] = "disconnect" => i = Len(events) /\ events[1] = "connect"
              /\ events[i] = "connect" => i = 1)
    /\ [](cli_pc = "done" => (Called("connect") <=> Called("disconnect")))
    /\ (Called("connect") ~> Called("disconnect"))

C20_Witness ==
    /\ cli_pc = "done"
    /\ command.name = "import_csv"
    /\ events = <<"connect", "op", "disconnect">>
    /\ engine = "disposed"

(***************************************************************************)
(* Further properties of the menu-driven program, checked under SpecMenu.  *)
(***************************************************************************)
\* C23: a table name that is already among the tables of the current database
\* is rejected, and no create, alter or insert is executed for it.
C23_ExistingNameRejected ==
    (/\ last.op = "create_table" /\ last.mode = "create"
     /\ current_db \in DOMAIN server_before
     /\ last.table \in DOMAIN server_before[current_db])
        => \A i \in 1..Len(stmts) :
              stmts[i].kind \in {"create table", "alter table", "insert"}
                  => stmts[i].table # last.table

\* C24: the current database is unset or a database of the server.
C24_CurrentDatabaseExists ==
    current_db = "None" \/ current_db \in DOMAIN server

\* C27: a merge that follows a completed merge of the same file into the same
\* table finds no new row and leaves the server as it was.
C27_SecondMergeInsertsNothing ==
    [][(MergeDone /\ MergeDone' /\ ops' = ops + 1 /\ last'.table = last.table)
          => (last'.new_rows = <<>> /\ server' = server)]_vars

(***************************************************************************)
(* Further properties of the command-line program, checked under SpecCli.  *)
(***************************************************************************)
CliSuccesses == {"imported", "listed", "created", "dropped", "analyze only", "cancelled"}

\* C21: a command ends with exit code 0 exactly when it succeeded.
C21_ExitCodeTellsSuccess ==
    cli_pc = "done" => (exit_code = 0 <=> cli_outcome \in CliSuccesses)

ConvertCalled == cli_outcome \in {"imported", "import failed"}

\* C26: the import command calls convert_csv_to_sql only after a connection,
\* a successful analysis outside analyze-only mode and a yes to the prompt;
\* otherwise the database is as it was.
C26_ImportOnlyAfterConsent ==
    (cli_pc # "idle" /\ command.name = "import_csv") =>
        /\ ConvertCalled =>
              /\ events[1] = "connect" /\ engine # "None"
              /\ command.parses /\ ~command.analyze_only
              /\ answer = "y"
        /\ ~ConvertCalled => server = InitialServer /\ df_columns = <<>>

\* the prompt of an import was declined and the command has ended
C26_Witness ==
    /\ cli_pc = "done" /\ command.name = "import_csv"
    /\ answer = "n" /\ cli_outcome = "cancelled"
    /\ server = InitialServer
    /\ events = <<"connect", "disconnect">>

(***************************************************************************)
(* Either program runs: the menu-driven one or a command of the            *)
(* command-line one.                                                       *)
(***************************************************************************)
InitPrograms == InitMenu \/ InitCli

NextPrograms == NextMenu \/ NextCli

SpecPrograms == InitPrograms /\ [][NextPrograms]_vars

DropStatements == {i \in 1..Len(stmts) : stmts[i].kind = "drop database"}

\* C25: a DROP DATABASE is issued only with consent.  A drop-database command
\* reaches the gateway only with --force or a yes to its prompt, and without
\* them the databases are as they were; the menu program drops only a name of
\* the server's list that is not "no", and no other choice changes the set of
\* databases downwards.
C25_DropOnlyWithConsent ==
    /\ (cli_pc # "idle" /\ command.name = "drop_database") =>
          /\ Called("op") => command.force \/ answer = "y"
          /\ ~(command.force \/ answer = "y") => server = InitialServer
    /\ menu_pc # "idle" =>
          /\ \A i \in DropStatements :
                /\ last.op = "delete_database"
                /\ stmts[i].db \in DOMAIN server_before
                /\ stmts[i].db # "no"
          /\ DropStatements = {} => DOMAIN server_before \subseteq DOMAIN server

\* drop-database without --force, the prompt answered yes, the database gone
C25_Witness ==
    /\ cli_pc = "done" /\ command.name = "drop_database"
    /\ ~command.force /\ answer = "y"
    /\ cli_outcome = "dropped"
    /\ command.database_name \notin DOMAIN server

(***************************************************************************)
(* ConfigManager and the options of import-csv.  Three options are kept:   *)
(* database.host, database.port and csv.chunk_size.  A source that does    *)
(* not set an option holds Unset for it.                                   *)
(***************************************************************************)
Unset == [tag |-> "unset", txt |-> <<>>]

Options(host, port, chunk) == [host |-> host, port |-> port, chunk_size |-> chunk]

\* _load_default_config, lines 464-484
load_default_config ==
    Options(StrValue(<<"l", "o", "c", "a", "l", "h", "o", "s", "t">>),
            IntValue(<<"3", "3", "0", "6">>),
            IntValue(<<"1", "0", "0", "0", "0">>))

\* _merge_config, lines 514-520, on the keys of the file
merge_config(base, override) ==
    [key \in DOMAIN base |-> IF override[key] # Unset THEN override[key] ELSE base[key]]

\* _set_nested_value, lines 522-536: the port is converted with int()
set_nested_value(cfg, key, value) ==
    [cfg EXCEPT ![key] = IF key = "port" THEN IntValue(value.txt) ELSE value]

\* _load_env_variables, lines 500-512: DB_HOST and DB_PORT; `if value:` skips
\* a variable that is not set or empty; no variable maps to csv.chunk_size
load_env_variables(cfg, env) ==
    LET with_host == IF env.host # Unset /\ env.host.txt # <<>>
                     THEN set_nested_value(cfg, "host", env.host) ELSE cfg
    IN  IF env.port # Unset /\ env.port.txt # <<>>
        THEN set_nested_value(with_host, "port", env.port) ELSE with_host

\* ConfigManager.__init__, lines 450-462
ConfigManager(src) ==
    load_env_variables(
        IF src.file_exists THEN merge_config(load_default_config, src.file)
        ELSE load_default_config,
        src.env)

\* import_csv, line 591: --chunk-size with the default 10000 of the option
import_chunk_size(cli_args, cfg) ==
    IF cli_args.chunk_size # Unset THEN cli_args.chunk_size
    ELSE IntValue(<<"1", "0", "0", "0", "0">>)

FileOptions ==
    {Options(h, p, c) :
        h \in {Unset, StrValue(<<"f", "h">>)},
        p \in {Unset, IntValue(<<"5", "4", "3", "2">>)},
        c \in {Unset, IntValue(<<"5", "0", "0">>)}}

EnvOptions ==
    {Options(h, p, Unset) :
        h \in {Unset, StrValue(<<>>), StrValue(<<"e", "h">>)},
        p \in {Unset, StrValue(<<>>), StrValue(<<"3", "3", "0", "7">>)}}

CliOptions == {Options(Unset, Unset, c) : c \in {Unset, IntValue(<<"1", "0", "0">>)}}

InitConfig ==
    /\ InferIdle /\ CleanIdle /\ MenuIdle /\ CliIdle
    /\ sources \in [file_exists : BOOLEAN, file : FileOptions, env : EnvOptions,
                    cli : CliOptions]
    /\ config = <<>>
    /\ chunk_size = <<>>
    /\ config_pc = "start"

\* cli(), lines 571-585: config_manager = ConfigManager(config)
LoadConfig ==
    /\ config_pc = "start"
    /\ config' = ConfigManager(sources)
    /\ config_pc' = "loaded"
    /\ UNCHANGED <<sources, chunk_size, inferVars, cleanVars, menuVars, cliVars>>

\* import_csv: the chunk size handed to convert_csv_to_sql (line 650)
ImportOptions ==
    /\ config_pc = "loaded"
    /\ chunk_size' = import_chunk_size(sources.cli, config)
    /\ config_pc' = "done"
    /\ UNCHANGED <<sources, config, inferVars, cleanVars, menuVars, cliVars>>

NextConfig == LoadConfig \/ ImportOptions

SpecConfig == InitConfig /\ [][NextConfig]_vars

\* the value of the highest source that sets the option: command line, then
\* environment (the int of the text for the port), then file, then default
Sets(source, key) == source[key] # Unset /\ source[key].txt # <<>>
EnvValue(key) ==
    IF key = "port" THEN IntValue(sources.env[key].txt) ELSE sources.env[key]
ByPrecedence(key) ==
    IF Sets(sources.cli, key) THEN sources.cli[key]
    ELSE IF Sets(sources.env, key) THEN EnvValue(key)
    ELSE IF sources.file_exists /\ Sets(sources.file, key) THEN sources.file[key]
    ELSE load_default_config[key]

\* C22: every option has the value of the highest-precedence source that sets
\* it: command line, environment, configuration file, default.
C22_HighestSourceWins ==
    config_pc = "done" =>
        /\ config.host = ByPrecedence("host")
        /\ config.port = ByPrecedence("port")
        /\ chunk_size = ByPrecedence("chunk_size")

====
